---- MODULE Spec2Model ----
(***************************************************************************)
(* Model of src/layers/COI.js: the pipeline that turns fetched clusters    *)
(* into a unit map, allocates fill patterns to communities of interest,    *)
(* loads the pattern images and applies the fill-pattern style expression. *)
(*                                                                         *)
(* JavaScript objects are modelled as sequences of <<key, value>> entries  *)
(* in the order Object.keys / Object.entries enumerate them: integer-like  *)
(* keys first in ascending numeric order, then the other keys in insertion *)
(* order.  JavaScript values that may be absent are tagged records (field  *)
(* kind), or strings with Undefined standing for the value undefined.      *)
(***************************************************************************)
EXTENDS Integers, Sequences, FiniteSets, TLC

VARIABLES
    pc,             \* position of the addCOIs promise chain
    fetches,        \* fetch() calls issued so far, with the answer each got
    clusters,       \* the parsed cluster list (raw, as fetched)
    filtered,       \* filterCOIs(clusters)
    unitMap,        \* createUnitMap(filtered)
    patterns,       \* the parsed pattern catalog
    chosenPatterns, \* include(patterns, names)
    patternMatch,   \* patternsToCOIs(unitMap, names)
    promises,       \* patternLoadingPromises, one per chosen pattern
    callbacks,      \* what each loadImage callback was called with
    loadImageCalls, \* map.loadImage calls, in issue order
    addImageCalls,  \* map.addImage calls
    loaded,         \* the array resolvesToArray resolves with
    paintCalls,     \* units.setPaintProperty calls, in order
    opacityCalls,   \* units.setOpacity calls, in order
    result          \* settlement of the promise addCOIs returned

vars == <<pc, fetches, clusters, filtered, unitMap, patterns, chosenPatterns,
          patternMatch, promises, callbacks, loadImageCalls, addImageCalls,
          loaded, paintCalls, opacityCalls, result>>

(***************************************************************************)
(* Bounds of the model.                                                    *)
(***************************************************************************)
MaxClusters == 2

MaxStyleCalls == 2

MaxCatalog == 3

(***************************************************************************)
(* JavaScript values and objects.                                          *)
(***************************************************************************)
Undefined == "<undefined>"

\* Boolean(x): undefined and null are the falsy values of the inputs.
Boolean(x) == x.kind \notin {"undefined", "null"}

IndexKeys == {ToString(i) : i \in 0..9}

IsIndexKey(k) == k \in IndexKeys

KeyNum(k) == CHOOSE i \in 0..9 : ToString(i) = k

\* String(x) as a property key: undefined becomes the key "undefined".
PropertyKey(x) == IF x = Undefined THEN "undefined" ELSE x

Keys(o) == [i \in 1..Len(o) |-> o[i][1]]

Values(o) == [i \in 1..Len(o) |-> o[i][2]]

Has(o, k) == \E i \in 1..Len(o) : o[i][1] = k

Lookup(o, k) == o[CHOOSE i \in 1..Len(o) : o[i][1] = k][2]

\* o[k] for an object whose values are strings.
Get(o, k) == IF Has(o, k) THEN Lookup(o, k) ELSE Undefined

InsertAt(s, i, e) == SubSeq(s, 1, i - 1) \o <<e>> \o SubSeq(s, i, Len(s))

\* o[k] = v, keeping the enumeration order of own property keys.
Put(o, k, v) ==
    IF Has(o, k)
    THEN [i \in 1..Len(o) |-> IF o[i][1] = k THEN <<k, v>> ELSE o[i]]
    ELSE IF IsIndexKey(k)
         THEN LET before == {i \in 1..Len(o) :
                                IsIndexKey(o[i][1]) /\ KeyNum(o[i][1]) < KeyNum(k)}
              IN  InsertAt(o, Cardinality(before) + 1, <<k, v>>)
         ELSE Append(o, <<k, v>>)

RECURSIVE fromEntries(_)
fromEntries(entries) ==
    IF entries = <<>> THEN <<>>
    ELSE LET last == entries[Len(entries)]
         IN  Put(fromEntries(SubSeq(entries, 1, Len(entries) - 1)), last[1], last[2])

Includes(array, x) == \E i \in 1..Len(array) : array[i] = x

\* Mutant of Slice: the last n elements instead of the first n.
Slice_FromEnd(array, n) ==
    SubSeq(array, IF n < Len(array) THEN Len(array) - n + 1 ELSE 1, Len(array))

Slice(array, n) == SubSeq(array, 1, IF n < Len(array) THEN n ELSE Len(array))

(***************************************************************************)
(* The inputs: cluster records and pattern catalogs.                       *)
(***************************************************************************)
Part(id, name) == [id |-> id, name |-> name]

Num(n) == [kind |-> "number", value |-> n]

Arr(items) == [kind |-> "array", items |-> items]

Plan(id, parts, entries) ==
    [kind |-> "object", id |-> id, parts |-> parts,
     assignment |-> [kind |-> "object", entries |-> entries]]

\* Well-formed plans: the two clusters of the specification's scenario, a
\* cluster with an integer-like id whose COIs first appear in the reverse
\* order of its parts table, and two clusters whose assignments name part
\* identifiers their parts tables lack.
Plans ==
    { Plan("A", <<Part(0, "Alpha"), Part(1, "Beta")>>,
           << <<"unit1", Num(0)>>, <<"unit2", Arr(<<0, 1>>)>> >>),
      Plan("B", <<Part(5, "Gamma")>>,
           << <<"unit3", Num(5)>> >>),
      Plan("7", <<Part(0, "Alpha"), Part(1, "Beta")>>,
           << <<"unit2", Arr(<<1, 0>>)>>, <<"unit1", Num(1)>> >>),
      Plan("B", <<Part(5, "Gamma")>>,
           << <<"unit1", Num(0)>>, <<"unit2", Arr(<<0, 1>>)>> >>),
      Plan("7", <<Part(1, "Beta")>>,
           << <<"unit2", Arr(<<1, 0>>)>>, <<"unit1", Num(1)>> >>) }

\* Plans the validator must exclude: no plan, and a plan without assignment.
MalformedPlans ==
    { [kind |-> "undefined"],
      [kind |-> "object", id |-> "A", parts |-> <<>>, assignment |-> [kind |-> "null"]] }

ClusterRecords == { [plan |-> p] : p \in Plans \cup MalformedPlans }

RECURSIVE ListsUpTo(_, _)
ListsUpTo(S, n) ==
    IF n = 0 THEN { <<>> }
    ELSE LET shorter == ListsUpTo(S, n - 1)
         IN  shorter \cup { Append(l, x) : l \in {s \in shorter : Len(s) = n - 1}, x \in S }

ClusterLists == ListsUpTo(ClusterRecords, MaxClusters)

PatternName(i) == "p" \o ToString(i)

PatternURL(i) == "url" \o ToString(i)

Catalog(m) == [i \in 1..m |-> <<PatternName(i), PatternURL(i)>>]

Catalogs == { Catalog(m) : m \in 0..MaxCatalog }

\* A fetch in flight, and what a fetch can be answered with.
Unanswered == [kind |-> "pending"]

Unreachable == [kind |-> "unreachable"]

InvalidJSON == [kind |-> "invalidJSON"]

JSONBody(body) == [kind |-> "json", body |-> body]

(***************************************************************************)
(* filterCOIs                                                              *)
(***************************************************************************)
\* The two rules of the list `rules`.
rulePlan(coi) == Boolean(coi.plan)

\* Mutant of ruleAssignment: tests the assignment's length, which no
\* assignment object has.
ruleAssignment_Length(coi) ==
    Boolean(coi.plan.assignment) /\ "length" \in DOMAIN coi.plan.assignment

ruleAssignment(coi) == Boolean(coi.plan.assignment)

\* Mutant of filterer: only the first rule is applied.
filterer_PlanOnly(cluster) == rulePlan(cluster)

\* for (let rule of rules) if (!rule(cluster)) return false; return true;
filterer(cluster) ==
    IF ~rulePlan(cluster) THEN FALSE
    ELSE IF ~ruleAssignment(cluster) THEN FALSE
    ELSE TRUE

filterCOIs(cl) == SelectSeq(cl, filterer)

(***************************************************************************)
(* createUnitMap                                                           *)
(***************************************************************************)
\* for (let part of cluster.plan.parts) identifiers[part.id] = part.name;
RECURSIVE partIdentifiers(_)
partIdentifiers(parts) ==
    IF parts = <<>> THEN <<>>
    ELSE LET part == parts[Len(parts)]
         IN  Put(partIdentifiers(SubSeq(parts, 1, Len(parts) - 1)),
                 ToString(part.id), part.name)

\* if (!Array.isArray(coiids)) coiids = [coiids];
normalizeCoiids(coiids) ==
    IF coiids.kind # "array" THEN <<coiids.value>> ELSE coiids.items

\* Mutant of addUnit: a unit whose part identifier has no name is dropped.
addUnit_DropUnresolved(clusterMap, name, unit) ==
    IF name = Undefined THEN clusterMap
    ELSE IF Has(clusterMap, name)
         THEN Put(clusterMap, name, Append(Lookup(clusterMap, name), unit))
         ELSE Put(clusterMap, name, <<unit>>)

\* Mutant of addUnit: always starts a new list.
addUnit_Overwrite(clusterMap, name, unit) ==
    Put(clusterMap, PropertyKey(name), <<unit>>)

\* if (clusterMap[name]) clusterMap[name].push(unit); else clusterMap[name] = [unit];
addUnit(clusterMap, name, unit) ==
    LET key == PropertyKey(name)
    IN  IF Has(clusterMap, key)
        THEN Put(clusterMap, key, Append(Lookup(clusterMap, key), unit))
        ELSE Put(clusterMap, key, <<unit>>)

\* for (let coiid of coiids) { let name = identifiers[coiid]; ... }
RECURSIVE addCoiids(_, _, _, _)
addCoiids(clusterMap, identifiers, unit, coiids) ==
    IF coiids = <<>> THEN clusterMap
    ELSE addCoiids(addUnit(clusterMap, Get(identifiers, ToString(Head(coiids))), unit),
                   identifiers, unit, Tail(coiids))

\* for (let [unit, coiids] of Object.entries(cluster.plan.assignment)) { ... }
RECURSIVE addAssignment(_, _, _)
addAssignment(clusterMap, identifiers, entries) ==
    IF entries = <<>> THEN clusterMap
    ELSE addAssignment(
             addCoiids(clusterMap, identifiers, Head(entries)[1],
                       normalizeCoiids(Head(entries)[2])),
             identifiers, Tail(entries))

clusterMapOf(cluster) ==
    addAssignment(<<>>, partIdentifiers(cluster.plan.parts),
                  cluster.plan.assignment.entries)

\* createUnitMap throws a TypeError when it reads cluster.plan.id of a missing
\* plan or calls Object.entries on a missing assignment.
createUnitMapThrows(cl) ==
    \E i \in 1..Len(cl) :
        \/ cl[i].plan.kind # "object"
        \/ cl[i].plan.assignment.kind # "object"

RECURSIVE createUnitMap(_)
createUnitMap(cl) ==
    IF cl = <<>> THEN <<>>
    ELSE LET cluster == cl[Len(cl)]
         IN  Put(createUnitMap(SubSeq(cl, 1, Len(cl) - 1)),
                 cluster.plan.id, clusterMapOf(cluster))

(***************************************************************************)
(* patternsToCOIs, include                                                 *)
(***************************************************************************)
\* Mutant of shift: reads the first element without removing it.
shift_Peek(array) ==
    IF array = <<>> THEN [value |-> Undefined, rest |-> <<>>]
    ELSE [value |-> Head(array), rest |-> array]

\* Mutant of shift: puts the removed element back at the end.
shift_Recycle(array) ==
    IF array = <<>> THEN [value |-> Undefined, rest |-> <<>>]
    ELSE [value |-> Head(array), rest |-> Append(Tail(array), Head(array))]

\* Array.prototype.shift: the removed first element (undefined when empty)
\* and the array that is left.
shift(array) ==
    IF array = <<>> THEN [value |-> Undefined, rest |-> <<>>]
    ELSE [value |-> Head(array), rest |-> Tail(array)]

\* Mutant of assignCluster: stops assigning once the patterns have run out.
RECURSIVE assignCluster_StopWhenEmpty(_, _, _)
assignCluster_StopWhenEmpty(clusterMapping, coiIdentifiers, names) ==
    IF coiIdentifiers = <<>> \/ names = <<>>
    THEN [mapping |-> clusterMapping, names |-> names]
    ELSE assignCluster_StopWhenEmpty(
             Put(clusterMapping, Head(coiIdentifiers), Head(names)),
             Tail(coiIdentifiers), Tail(names))

\* for (let coiIdentifier of Object.keys(cluster))
\*     mapping[clusterIdentifier][coiIdentifier] = patterns.shift();
RECURSIVE assignCluster(_, _, _)
assignCluster(clusterMapping, coiIdentifiers, names) ==
    IF coiIdentifiers = <<>> THEN [mapping |-> clusterMapping, names |-> names]
    ELSE LET s == shift(names)
         IN  assignCluster(Put(clusterMapping, Head(coiIdentifiers), s.value),
                           Tail(coiIdentifiers), s.rest)

RECURSIVE assignClusters(_, _, _)
assignClusters(mapping, entries, names) ==
    IF entries = <<>> THEN mapping
    ELSE LET c == assignCluster(<<>>, Keys(Head(entries)[2]), names)
         IN  assignClusters(Put(mapping, Head(entries)[1], c.mapping),
                            Tail(entries), c.names)

patternsToCOIs(um, names) == assignClusters(<<>>, um, names)

\* Mutant of include: every property is retained.
include_All(object, included) == object

include(object, included) ==
    fromEntries(SelectSeq(object, LAMBDA entry : Includes(included, entry[1])))

\* for (let cluster of Object.values(unitMap)) numberOfNames += Object.keys(cluster).length;
RECURSIVE numberOfNames(_)
numberOfNames(um) ==
    IF um = <<>> THEN 0
    ELSE Len(Keys(Head(um)[2])) + numberOfNames(Tail(um))

(***************************************************************************)
(* Promises, loadPatterns, resolvesToArray                                 *)
(***************************************************************************)
Pending == [state |-> "pending"]

\* resolve(value) and reject(reason) of a promise: only the first one counts.
resolve(promise, value) ==
    IF promise.state = "pending" THEN [state |-> "fulfilled", value |-> value]
    ELSE promise

reject(promise, reason) ==
    IF promise.state = "pending" THEN [state |-> "rejected", reason |-> reason]
    ELSE promise

\* The promise of one pattern after its loadImage callback ran:
\* if (error) reject("transparent"); map.addImage(pattern, image); resolve(pattern);
loadImageCallback(promise, pattern, error) ==
    resolve(IF error THEN reject(promise, "transparent") ELSE promise, pattern)

\* The image the callback hands to map.addImage: undefined when the load failed.
callbackImage(url, error) == IF error THEN Undefined ELSE url

\* Mutant of allSettled: Promise.all, which rejects with the first rejection.
allSettled_FailFast(ps) ==
    IF \E i \in 1..Len(ps) : ps[i].state = "rejected"
    THEN [state |-> "rejected",
          reason |-> ps[CHOOSE i \in 1..Len(ps) : ps[i].state = "rejected"].reason]
    ELSE IF \E i \in 1..Len(ps) : ps[i].state = "pending" THEN Pending
    ELSE [state |-> "fulfilled",
          value |-> [i \in 1..Len(ps) |-> [status |-> "fulfilled", value |-> ps[i].value]]]

\* Mutant of allSettled: settles as soon as one promise has settled.
allSettled_FirstSettled(ps) ==
    IF ps # <<>> /\ \A i \in 1..Len(ps) : ps[i].state = "pending" THEN Pending
    ELSE [state |-> "fulfilled",
          value |-> [i \in 1..Len(ps) |->
                        IF ps[i].state = "fulfilled"
                        THEN [status |-> "fulfilled", value |-> ps[i].value]
                        ELSE [status |-> ps[i].state]]]

\* Promise.allSettled(promises)
allSettled(ps) ==
    IF \E i \in 1..Len(ps) : ps[i].state = "pending" THEN Pending
    ELSE [state |-> "fulfilled",
          value |-> [i \in 1..Len(ps) |->
                        IF ps[i].state = "fulfilled"
                        THEN [status |-> "fulfilled", value |-> ps[i].value]
                        ELSE [status |-> "rejected", reason |-> ps[i].reason]]]

\* result.value
valueOf(settled) == IF "value" \in DOMAIN settled THEN settled.value ELSE Undefined

\* for (let result of results) values.push(result.value);
resolvesToArray(results) == [i \in 1..Len(results) |-> valueOf(results[i])]

(***************************************************************************)
(* patternStyleExpression                                                  *)
(***************************************************************************)
Str(s) == [kind |-> "string", value |-> s]

\* ["in", ["get", "GEOID20"], ["literal", geoids]]
subexpression(geoids) == [kind |-> "in", get |-> "GEOID20", literal |-> geoids]

\* Mutant of clusterBranches: puts each new branch in front of the earlier ones.
RECURSIVE clusterBranches_Prepend(_, _)
clusterBranches_Prepend(cluster, clusterPatterns) ==
    IF cluster = <<>> THEN <<>>
    ELSE clusterBranches_Prepend(Tail(cluster), clusterPatterns)
         \o <<subexpression(Head(cluster)[2]), Str(Get(clusterPatterns, Head(cluster)[1]))>>

RECURSIVE clusterBranches(_, _)
clusterBranches(cluster, clusterPatterns) ==
    IF cluster = <<>> THEN <<>>
    ELSE <<subexpression(Head(cluster)[2]), Str(Get(clusterPatterns, Head(cluster)[1]))>>
         \o clusterBranches(Tail(cluster), clusterPatterns)

RECURSIVE unitMapBranches(_, _)
unitMapBranches(um, pm) ==
    IF um = <<>> THEN <<>>
    ELSE clusterBranches(Head(um)[2], Lookup(pm, Head(um)[1]))
         \o unitMapBranches(Tail(um), pm)

\* Mutant of patternStyleExpression: the default value is not pushed.
patternStyleExpression_NoDefault(um, pm) ==
    <<Str("case")>> \o unitMapBranches(um, pm)

patternStyleExpression(um, pm) ==
    <<Str("case")>> \o unitMapBranches(um, pm) \o <<Str("transparent")>>

(***************************************************************************)
(* opacityStyleExpression                                                  *)
(***************************************************************************)
\* A number, as the fraction num/den.
Number(num, den) == [kind |-> "number", num |-> num, den |-> den]

NoArgument == [kind |-> "undefined"]

\* opacity=1/3: the default applies when the argument is undefined.
opacityParameter(opacity) == IF opacity.kind = "undefined" THEN Number(1, 3) ELSE opacity

\* units.type.replace("symbol", "icon"), for the types of LayerTypes.
replaceSymbol(type) == IF type = "symbol" THEN "icon" ELSE type

\* Mutant of opacityLayer: the type is used as it is.
opacityLayer_NoReplace(type) == type \o "-opacity"

opacityLayer(type) == replaceSymbol(type) \o "-opacity"

\* ["case", ["in", ["get", "GEOID20"], ["literal", geoids]], 0, opacity]
opacityFilter(geoids, opacity) ==
    <<Str("case"), subexpression(geoids), Number(0, 1), opacity>>

LayerTypes == {"fill", "line", "circle", "symbol"}

GeoidLists == { <<>>, <<"unit1">>, <<"unit3", "unit2">> }

OpacityArguments == { NoArgument, Number(1, 2), Number(1, 1) }

(***************************************************************************)
(* fetch(...).then(res => res.json())                                      *)
(***************************************************************************)
\* Mutant of fetchJSON: a failed fetch is caught and read as an empty body.
fetchJSON_EmptyOnFailure(response) ==
    IF response.kind = "json" THEN [state |-> "fulfilled", value |-> response.body]
    ELSE [state |-> "fulfilled", value |-> <<>>]

fetchJSON(response) ==
    IF response.kind = "json" THEN [state |-> "fulfilled", value |-> response.body]
    ELSE [state |-> "rejected", reason |-> response.kind]

ClusterURL == "/assets/sample_module.json"

PatternsURL == "/assets/patterns/patterns.json"

ClusterResponses == {Unreachable, InvalidJSON} \cup { JSONBody(cl) : cl \in ClusterLists }

PatternResponses == {Unreachable, InvalidJSON} \cup { JSONBody(c) : c \in Catalogs }

(***************************************************************************)
(* addCOIs                                                                 *)
(***************************************************************************)
\* addCOIs(state) has been called: the cluster fetch is in flight.
Init ==
    /\ pc = "fetchClusters"
    /\ fetches = << [url |-> ClusterURL, response |-> Unanswered] >>
    /\ clusters = <<>>
    /\ filtered = <<>>
    /\ unitMap = <<>>
    /\ patterns = <<>>
    /\ chosenPatterns = <<>>
    /\ patternMatch = <<>>
    /\ promises = <<>>
    /\ callbacks = <<>>
    /\ loadImageCalls = <<>>
    /\ addImageCalls = {}
    /\ loaded = <<>>
    /\ paintCalls = <<>>
    /\ opacityCalls = <<>>
    /\ result = Pending

\* The cluster fetch is answered; on success the first handler filters the
\* clusters, builds the unit map and calls loadPatternMapping().  An exception
\* thrown by the handler rejects the promise addCOIs returned.
ClusterFetchSettles ==
    /\ pc = "fetchClusters"
    /\ \E response \in ClusterResponses :
       LET parsed == fetchJSON(response)
           answered == [fetches EXCEPT ![1].response = response]
       IN  IF parsed.state = "rejected"
           THEN /\ pc' = "rejected"
                /\ result' = parsed
                /\ fetches' = answered
                /\ UNCHANGED <<clusters, filtered, unitMap>>
           ELSE /\ clusters' = parsed.value
                /\ filtered' = filterCOIs(parsed.value)
                /\ IF createUnitMapThrows(filterCOIs(parsed.value))
                   THEN /\ pc' = "rejected"
                        /\ result' = [state |-> "rejected", reason |-> "TypeError"]
                        /\ fetches' = answered
                        /\ UNCHANGED unitMap
                   ELSE /\ pc' = "fetchPatterns"
                        /\ unitMap' = createUnitMap(filterCOIs(parsed.value))
                        /\ fetches' = Append(answered,
                               [url |-> PatternsURL, response |-> Unanswered])
                        /\ UNCHANGED result
    /\ UNCHANGED <<patterns, chosenPatterns, patternMatch, promises, callbacks,
                   loadImageCalls, addImageCalls, loaded, paintCalls, opacityCalls>>

\* Mutant of PatternFetchSettles: requests the image of every catalog entry
\* as soon as the catalog arrives, before allocation.
PatternFetchSettles_EagerLoad ==
    /\ pc = "fetchPatterns"
    /\ \E response \in PatternResponses :
       LET parsed == fetchJSON(response)
       IN  /\ fetches' = [fetches EXCEPT ![2].response = response]
           /\ IF parsed.state = "rejected"
              THEN /\ pc' = "rejected"
                   /\ result' = parsed
                   /\ UNCHANGED <<patterns, loadImageCalls>>
              ELSE /\ pc' = "allocate"
                   /\ patterns' = parsed.value
                   /\ loadImageCalls' = Values(parsed.value)
                   /\ UNCHANGED result
    /\ UNCHANGED <<clusters, filtered, unitMap, chosenPatterns, patternMatch, promises,
                   callbacks, addImageCalls, loaded, paintCalls, opacityCalls>>

\* The catalog fetch is answered; on success the second handler starts with
\* the parsed catalog.  The handler then runs Allocate and LoadPatterns, in
\* that order, without yielding.
PatternFetchSettles ==
    /\ pc = "fetchPatterns"
    /\ \E response \in PatternResponses :
       LET parsed == fetchJSON(response)
       IN  /\ fetches' = [fetches EXCEPT ![2].response = response]
           /\ IF parsed.state = "rejected"
              THEN /\ pc' = "rejected"
                   /\ result' = parsed
                   /\ UNCHANGED patterns
              ELSE /\ pc' = "allocate"
                   /\ patterns' = parsed.value
                   /\ UNCHANGED result
    /\ UNCHANGED <<clusters, filtered, unitMap, chosenPatterns, patternMatch, promises,
                   callbacks, loadImageCalls, addImageCalls, loaded, paintCalls,
                   opacityCalls>>

\* let names = Object.keys(patterns).slice(0, numberOfNames),
\*     chosenPatterns = include(patterns, names),
\*     patternMatch = patternsToCOIs(unitMap, names);
Allocate ==
    /\ pc = "allocate"
    /\ LET names == Slice(Keys(patterns), numberOfNames(unitMap))
       IN  /\ chosenPatterns' = include(patterns, names)
           /\ patternMatch' = patternsToCOIs(unitMap, names)
    /\ pc' = "load"
    /\ UNCHANGED <<fetches, clusters, filtered, unitMap, patterns, promises, callbacks,
                   loadImageCalls, addImageCalls, loaded, paintCalls, opacityCalls,
                   result>>

\* loadPatterns(map, chosenPatterns): one promise and one map.loadImage
\* request per entry, then Promise.allSettled is awaited.
LoadPatterns ==
    /\ pc = "load"
    /\ promises' = [i \in 1..Len(chosenPatterns) |-> Pending]
    /\ callbacks' = [i \in 1..Len(chosenPatterns) |-> "pending"]
    /\ loadImageCalls' = loadImageCalls \o Values(chosenPatterns)
    /\ pc' = "await"
    /\ UNCHANGED <<fetches, clusters, filtered, unitMap, patterns, chosenPatterns,
                   patternMatch, addImageCalls, loaded, paintCalls, opacityCalls,
                   result>>

\* The engine calls the callback of the i-th loadImage request.  After an
\* error the callback still calls map.addImage, with an undefined image;
\* whatever the engine does with that call happens inside the callback, after
\* the promise was rejected, and changes nothing the pipeline reads.
LoadImageCallback(i, error) ==
    /\ i \in 1..Len(callbacks)
    /\ callbacks[i] = "pending"
    /\ callbacks' = [callbacks EXCEPT ![i] = IF error THEN "error" ELSE "image"]
    /\ promises' = [promises EXCEPT
                       ![i] = loadImageCallback(@, chosenPatterns[i][1], error)]
    /\ addImageCalls' = addImageCalls \cup
           { [name |-> chosenPatterns[i][1],
              image |-> callbackImage(chosenPatterns[i][2], error)] }
    /\ UNCHANGED <<pc, fetches, clusters, filtered, unitMap, patterns, chosenPatterns,
                   patternMatch, loadImageCalls, loaded, paintCalls, opacityCalls,
                   result>>

\* Promise.allSettled settles; .then(loadedPatterns => resolvesToArray(loadedPatterns))
LoadPatternsSettles ==
    /\ pc = "await"
    /\ LET all == allSettled(promises)
       IN  /\ all.state # "pending"
           /\ IF all.state = "rejected"
              THEN /\ pc' = "rejected"
                   /\ result' = all
                   /\ UNCHANGED loaded
              ELSE /\ pc' = "compile"
                   /\ loaded' = resolvesToArray(all.value)
                   /\ UNCHANGED result
    /\ UNCHANGED <<fetches, clusters, filtered, unitMap, patterns, chosenPatterns,
                   patternMatch, promises, callbacks, loadImageCalls, addImageCalls,
                   paintCalls, opacityCalls>>

\* Mutant of Compile: the patterns whose image failed to load are replaced by
\* "transparent" in the pattern assignment before the style is compiled.
Compile_LoadedPatterns ==
    /\ pc = "compile"
    /\ LET usable(p) == \E i \in 1..Len(loaded) : loaded[i] = p
           rendered == [c \in 1..Len(patternMatch) |->
                          <<patternMatch[c][1],
                            [n \in 1..Len(patternMatch[c][2]) |->
                               <<patternMatch[c][2][n][1],
                                 IF usable(patternMatch[c][2][n][2])
                                 THEN patternMatch[c][2][n][2]
                                 ELSE "transparent">>]>>]
       IN  /\ paintCalls' = Append(paintCalls,
                  [name |-> "fill-pattern",
                   value |-> patternStyleExpression(unitMap, rendered)])
           /\ patternMatch' = rendered
           /\ result' = [state |-> "fulfilled",
                         value |-> [clusters |-> clusters, unitMap |-> unitMap,
                                    patternMatch |-> rendered, units |-> "coiunits",
                                    chosenPatterns |-> chosenPatterns]]
    /\ opacityCalls' = Append(opacityCalls, 0)
    /\ pc' = "fulfilled"
    /\ UNCHANGED <<fetches, clusters, filtered, unitMap, patterns, chosenPatterns,
                   promises, callbacks, loadImageCalls, addImageCalls, loaded>>

\* The last handler: patternStyleExpression, setOpacity(0), the composite result.
Compile ==
    /\ pc = "compile"
    /\ paintCalls' = Append(paintCalls,
           [name |-> "fill-pattern", value |-> patternStyleExpression(unitMap, patternMatch)])
    /\ opacityCalls' = Append(opacityCalls, 0)
    /\ result' = [state |-> "fulfilled",
                  value |-> [clusters |-> clusters, unitMap |-> unitMap,
                             patternMatch |-> patternMatch, units |-> "coiunits",
                             chosenPatterns |-> chosenPatterns]]
    /\ pc' = "fulfilled"
    /\ UNCHANGED <<fetches, clusters, filtered, unitMap, patterns, chosenPatterns,
                   patternMatch, promises, callbacks, loadImageCalls, addImageCalls,
                   loaded>>

Next ==
    \/ ClusterFetchSettles
    \/ PatternFetchSettles
    \/ Allocate
    \/ LoadPatterns
    \/ \E i \in 1..MaxCatalog, error \in BOOLEAN : LoadImageCallback(i, error)
    \/ LoadPatternsSettles
    \/ Compile

Spec == Init /\ [][Next]_vars

\* The event loop runs every ready handler, and the engine answers every
\* loadImage request.
FairSpec ==
    /\ Spec
    /\ WF_vars(Allocate)
    /\ WF_vars(LoadPatterns)
    /\ WF_vars(\E i \in 1..MaxCatalog, error \in BOOLEAN : LoadImageCallback(i, error))
    /\ WF_vars(LoadPatternsSettles)
    /\ WF_vars(Compile)

(***************************************************************************)
(* opacityStyleExpression, called by the user interface on a layer.        *)
(***************************************************************************)
OpacityInit ==
    /\ pc = "styling"
    /\ fetches = <<>>
    /\ clusters = <<>>
    /\ filtered = <<>>
    /\ unitMap = <<>>
    /\ patterns = <<>>
    /\ chosenPatterns = <<>>
    /\ patternMatch = <<>>
    /\ promises = <<>>
    /\ callbacks = <<>>
    /\ loadImageCalls = <<>>
    /\ addImageCalls = {}
    /\ loaded = <<>>
    /\ paintCalls = <<>>
    /\ opacityCalls = <<>>
    /\ result = Pending

OpacityStyleExpression(type, geoids, opacity) ==
    /\ pc = "styling"
    /\ Len(paintCalls) < MaxStyleCalls
    /\ paintCalls' = Append(paintCalls,
           [name |-> opacityLayer(type),
            value |-> opacityFilter(geoids, opacityParameter(opacity))])
    /\ UNCHANGED <<pc, fetches, clusters, filtered, unitMap, patterns, chosenPatterns,
                   patternMatch, promises, callbacks, loadImageCalls, addImageCalls,
                   loaded, opacityCalls, result>>

OpacityNext ==
    \E type \in LayerTypes, geoids \in GeoidLists, opacity \in OpacityArguments :
        OpacityStyleExpression(type, geoids, opacity)

OpacitySpec == OpacityInit /\ [][OpacityNext]_vars

(***************************************************************************)
(* Vocabulary of the properties.                                           *)
(***************************************************************************)
\* The (cluster, COI name) pairs of a unit map, in traversal order.
RECURSIVE Traversal(_)
Traversal(um) ==
    IF um = <<>> THEN <<>>
    ELSE [i \in 1..Len(Head(um)[2]) |-> <<Head(um)[1], Head(um)[2][i][1]>>]
         \o Traversal(Tail(um))

PairCount == Len(Traversal(unitMap))

CatalogSize == Len(patterns)

Min(a, b) == IF a < b THEN a ELSE b

\* patternMatch[cluster][COI name] for the k-th pair of the unit map.
AssignedTo(k) ==
    LET pair == Traversal(unitMap)[k]
    IN  Get(Lookup(patternMatch, pair[1]), pair[2])

CatalogNames == { patterns[i][1] : i \in 1..Len(patterns) }

Allocated == pc \in {"load", "await", "compile", "fulfilled"}

LoadsSettled == pc \in {"compile", "fulfilled"}

FailedLoads == { i \in 1..Len(callbacks) : callbacks[i] = "error" }

FillPatternApplied == \E i \in 1..Len(paintCalls) : paintCalls[i].name = "fill-pattern"

EngineUntouched ==
    /\ loadImageCalls = <<>>
    /\ addImageCalls = {}
    /\ paintCalls = <<>>
    /\ opacityCalls = <<>>

\* The end-to-end scenario of the specification.
ScenarioClusters ==
    << [plan |-> [kind |-> "object", id |-> "A",
                  parts |-> <<Part(0, "Alpha"), Part(1, "Beta")>>,
                  assignment |-> [kind |-> "object",
                                  entries |-> << <<"unit1", Num(0)>>,
                                                 <<"unit2", Arr(<<0, 1>>)>> >>]]],
       [plan |-> [kind |-> "object", id |-> "B",
                  parts |-> <<Part(5, "Gamma")>>,
                  assignment |-> [kind |-> "object",
                                  entries |-> << <<"unit3", Num(5)>> >>]]] >>

ScenarioUnitMap ==
    << <<"A", << <<"Alpha", <<"unit1", "unit2">> >>, <<"Beta", <<"unit2">> >> >> >>,
       <<"B", << <<"Gamma", <<"unit3">> >> >> >> >>

(***************************************************************************)
(* C1: for a sub-catalog of M patterns of which K loads fail, the list     *)
(* resolvesToArray resolves with has length M, its i-th entry is           *)
(* "transparent" when the i-th load failed and the i-th pattern name       *)
(* otherwise.                                                              *)
(***************************************************************************)
C1_SettledOutcomes ==
    LoadsSettled =>
        /\ Len(loaded) = Len(chosenPatterns)
        /\ \A i \in 1..Len(chosenPatterns) :
              loaded[i] = IF i \in FailedLoads THEN "transparent"
                          ELSE chosenPatterns[i][1]

(***************************************************************************)
(* C2: the fill-pattern style is applied only after the callback of every  *)
(* loadImage request has fired, with an image or with an error.            *)
(***************************************************************************)
C2_StyleAfterAllLoads ==
    (pc \in {"compile", "fulfilled"} \/ FillPatternApplied) =>
        /\ Len(callbacks) = Len(loadImageCalls)
        /\ \A i \in 1..Len(callbacks) : callbacks[i] # "pending"

C2_Witness ==
    /\ FillPatternApplied
    /\ Len(loadImageCalls) >= 2
    /\ FailedLoads # {}
    /\ \E i \in 1..Len(callbacks) : callbacks[i] = "image"

(***************************************************************************)
(* C3: allocation happens only after the catalog fetch has completed, and  *)
(* no loadImage request is issued before allocation has completed.         *)
(***************************************************************************)
C3_FetchThenAllocateThenLoad ==
    /\ (Allocated \/ patternMatch # <<>> \/ chosenPatterns # <<>>) =>
          /\ Len(fetches) = 2
          /\ fetches[2].response.kind = "json"
          /\ patterns = fetches[2].response.body
    /\ loadImageCalls # <<>> =>
          /\ pc \in {"await", "compile", "fulfilled"}
          /\ loadImageCalls = Values(chosenPatterns)
          /\ Len(patternMatch) = Len(unitMap)

C3_Witness ==
    /\ pc = "await"
    /\ Len(loadImageCalls) >= 2
    /\ Len(patternMatch) >= 2

(***************************************************************************)
(* C4: once both fetches have succeeded, whichever image loads fail, the   *)
(* addCOIs promise is never rejected and eventually fulfils with the       *)
(* composite result, the fill-pattern paint property being applied.        *)
(***************************************************************************)
C4_ImageFailureTolerated ==
    /\ [](pc \in {"allocate", "load", "await", "compile"} => result.state = "pending")
    /\ (pc = "allocate") ~>
          /\ result.state = "fulfilled"
          /\ result.value = [clusters |-> clusters, unitMap |-> unitMap,
                             patternMatch |-> patternMatch, units |-> "coiunits",
                             chosenPatterns |-> chosenPatterns]
          /\ FillPatternApplied

C4_Witness ==
    /\ result.state = "fulfilled"
    /\ FillPatternApplied
    /\ Len(callbacks) >= 2
    /\ FailedLoads = 1..Len(callbacks)

(***************************************************************************)
(* C5: when the cluster fetch or the catalog fetch fails, the addCOIs      *)
(* promise rejects, no fetch is issued twice and the engine receives no    *)
(* loadImage, addImage, setPaintProperty or setOpacity call.               *)
(***************************************************************************)
FetchFailed ==
    \E i \in 1..Len(fetches) : fetches[i].response.kind \in {"unreachable", "invalidJSON"}

C5_FetchFailureRejects ==
    FetchFailed =>
        /\ result.state = "rejected"
        /\ pc = "rejected"
        /\ \A i, j \in 1..Len(fetches) : fetches[i].url = fetches[j].url => i = j
        /\ EngineUntouched

C5_Witness ==
    /\ Len(fetches) = 2
    /\ fetches[2].response.kind = "invalidJSON"
    /\ unitMap # <<>>

(***************************************************************************)
(* C6: with N (cluster, COI name) pairs and a catalog of M >= N entries,   *)
(* every pair is given a pattern name of the catalog and no pattern name   *)
(* is given to two pairs.                                                  *)
(***************************************************************************)
C6_DistinctPatterns ==
    (Allocated /\ CatalogSize >= PairCount) =>
        /\ \A k \in 1..PairCount : AssignedTo(k) \in CatalogNames
        /\ \A k, l \in 1..PairCount : AssignedTo(k) = AssignedTo(l) => k = l

C6_Witness ==
    /\ Allocated
    /\ PairCount = 3
    /\ Len(unitMap) = 2
    /\ CatalogSize >= PairCount

(***************************************************************************)
(* C7 as stated: allocation consumes exactly the first N catalog entries,  *)
(* N the number of pairs, and the k-th pair receives the k-th entry.       *)
(***************************************************************************)
C7_FirstNConsumed ==
    Allocated =>
        /\ Len(chosenPatterns) = PairCount
        /\ \A k \in 1..PairCount :
              /\ k <= CatalogSize
              /\ chosenPatterns[k] = patterns[k]
              /\ AssignedTo(k) = patterns[k][1]

(***************************************************************************)
(* C7 amended: allocation consumes exactly the first min(N, M) catalog     *)
(* entries and, for k <= min(N, M), the k-th pair in traversal order       *)
(* receives the k-th entry; in the two-cluster scenario A.Alpha, A.Beta    *)
(* and B.Gamma receive p1, p2 and p3.                                      *)
(***************************************************************************)
C7_FirstMinConsumed ==
    Allocated =>
        /\ Len(chosenPatterns) = Min(PairCount, CatalogSize)
        /\ \A k \in 1..Min(PairCount, CatalogSize) :
              /\ chosenPatterns[k] = patterns[k]
              /\ AssignedTo(k) = patterns[k][1]
        /\ (clusters = ScenarioClusters /\ patterns = Catalog(3)) =>
              /\ Traversal(unitMap) = << <<"A", "Alpha">>, <<"A", "Beta">>, <<"B", "Gamma">> >>
              /\ patternMatch = << <<"A", << <<"Alpha", "p1">>, <<"Beta", "p2">> >> >>,
                                   <<"B", << <<"Gamma", "p3">> >> >> >>

C7_Witness ==
    /\ Allocated
    /\ clusters = ScenarioClusters
    /\ patterns = Catalog(3)

(***************************************************************************)
(* C8: with M catalog entries and N > M pairs, the first M pairs receive   *)
(* M distinct catalog patterns, every later pair receives undefined, and   *)
(* allocation raises no error.                                             *)
(***************************************************************************)
C8_Exhaustion ==
    (Allocated /\ PairCount > CatalogSize) =>
        /\ \A k \in 1..CatalogSize : AssignedTo(k) \in CatalogNames
        /\ \A k, l \in 1..CatalogSize : AssignedTo(k) = AssignedTo(l) => k = l
        /\ \A k \in (CatalogSize + 1)..PairCount :
              /\ Has(Lookup(patternMatch, Traversal(unitMap)[k][1]), Traversal(unitMap)[k][2])
              /\ AssignedTo(k) = Undefined
        /\ result.state # "rejected"

C8_Witness ==
    /\ Allocated
    /\ CatalogSize = 2
    /\ PairCount = 4

(***************************************************************************)
(* C9: for valid clusters with unique ids, unit u is in unitMap[c.id][n]   *)
(* exactly when some part identifier of assignment[u] (a scalar counting   *)
(* as a one-element list) resolves to n in c's parts table; the units of a *)
(* list keep the order of the assignment entries.                          *)
(***************************************************************************)
UniqueIds(cl) == \A i, j \in 1..Len(cl) : cl[i].plan.id = cl[j].plan.id => i = j

PartIdsOf(coiids) ==
    IF coiids.kind = "array" THEN { coiids.items[i] : i \in 1..Len(coiids.items) }
    ELSE { coiids.value }

\* identifiers[id] is the name of the last part with that id.
ResolvesTo(parts, id, n) ==
    \E j \in 1..Len(parts) :
        /\ parts[j].id = id
        /\ parts[j].name = n
        /\ \A l \in (j + 1)..Len(parts) : parts[l].id # id

UnitsOf(c, n) ==
    IF Has(unitMap, c.plan.id) /\ Has(Lookup(unitMap, c.plan.id), n)
    THEN Lookup(Lookup(unitMap, c.plan.id), n)
    ELSE <<>>

EntryIndex(entries, u) == CHOOSE i \in 1..Len(entries) : entries[i][1] = u

AllUnits == {"unit1", "unit2", "unit3"}

AllNames == {"Alpha", "Beta", "Gamma"}

C9_UnitMapMembership ==
    (pc # "fetchClusters" /\ UniqueIds(filtered)) =>
        \A i \in 1..Len(filtered) :
            LET c == filtered[i]
                entries == c.plan.assignment.entries
            IN  \A n \in AllNames :
                   /\ \A u \in AllUnits :
                         Includes(UnitsOf(c, n), u) <=>
                            \E e \in 1..Len(entries) :
                                /\ entries[e][1] = u
                                /\ \E id \in PartIdsOf(entries[e][2]) :
                                       ResolvesTo(c.plan.parts, id, n)
                   /\ \A a, b \in 1..Len(UnitsOf(c, n)) :
                         a < b => EntryIndex(entries, UnitsOf(c, n)[a])
                                      <= EntryIndex(entries, UnitsOf(c, n)[b])

C9_Witness ==
    /\ pc = "fetchPatterns"
    /\ Len(filtered) = 2
    /\ UniqueIds(filtered)
    /\ Has(unitMap, "A")
    /\ Lookup(unitMap, "A") = << <<"Alpha", <<"unit1", "unit2">> >>, <<"Beta", <<"unit2">> >> >>

(***************************************************************************)
(* C10: filterCOIs returns exactly the records whose plan and              *)
(* plan.assignment are truthy, in their original relative order, each kept *)
(* once and unmodified, and leaves the input list as it was.               *)
(***************************************************************************)
Truthy(x) == x.kind \in {"object", "array", "number"}

Eligible(cl) == { j \in 1..Len(cl) : Truthy(cl[j].plan) /\ Truthy(cl[j].plan.assignment) }

C10_StableFilter ==
    (pc \notin {"fetchClusters"} /\ fetches[1].response.kind = "json") =>
        /\ clusters = fetches[1].response.body
        /\ Len(filtered) = Cardinality(Eligible(clusters))
        /\ \A j \in Eligible(clusters) :
              filtered[Cardinality({ l \in Eligible(clusters) : l <= j })] = clusters[j]

C10_Witness ==
    /\ pc = "fetchPatterns"
    /\ Len(clusters) = 2
    /\ Len(filtered) = 1
    /\ ~Truthy(clusters[1].plan)
    /\ filtered[1] = clusters[2]

(***************************************************************************)
(* The rendering engine's "case" expression: the output of the first       *)
(* branch whose condition holds, the fallback when none does.              *)
(***************************************************************************)
BranchCount(e) == (Len(e) - 2) \div 2

Matching(e, u) == { i \in 1..BranchCount(e) : Includes(e[2 * i].literal, u) }

EvalCase(e, u) ==
    IF Matching(e, u) = {} THEN e[Len(e)]
    ELSE e[2 * (CHOOSE i \in Matching(e, u) : \A j \in Matching(e, u) : i <= j) + 1]

\* The unit list of the k-th pair of the unit map.
UnitListOf(k) ==
    LET pair == Traversal(unitMap)[k]
    IN  Lookup(Lookup(unitMap, pair[1]), pair[2])

\* The pairs whose unit list contains u.
Covering(u) == { k \in 1..PairCount : Includes(UnitListOf(k), u) }

FillPattern == paintCalls[CHOOSE i \in 1..Len(paintCalls) : paintCalls[i].name = "fill-pattern"].value

(***************************************************************************)
(* C11: the expression applied to "fill-pattern" is "case", then for each  *)
(* (cluster, COI name, unit list) in traversal order the membership test   *)
(* on the unit list followed by patternMatch[cluster][COI name], then      *)
(* "transparent"; a unit in no unit list evaluates to "transparent", a     *)
(* unit of exactly one COI to that COI's pattern.                          *)
(***************************************************************************)
C11_CaseExpression ==
    FillPatternApplied =>
        LET e == FillPattern
        IN  /\ Len(e) = 2 * PairCount + 2
            /\ e[1] = Str("case")
            /\ e[Len(e)] = Str("transparent")
            /\ \A k \in 1..PairCount :
                  /\ e[2 * k] = [kind |-> "in", get |-> "GEOID20", literal |-> UnitListOf(k)]
                  /\ e[2 * k + 1] = Str(AssignedTo(k))
            /\ \A u \in AllUnits :
                  /\ Covering(u) = {} => EvalCase(e, u) = Str("transparent")
                  /\ \A k \in 1..PairCount :
                        Covering(u) = {k} => EvalCase(e, u) = Str(AssignedTo(k))

C11_Witness ==
    /\ FillPatternApplied
    /\ clusters = ScenarioClusters
    /\ patterns = Catalog(3)
    /\ EvalCase(FillPattern, "unit1") = Str("p1")
    /\ EvalCase(FillPattern, "unit3") = Str("p3")

(***************************************************************************)
(* C12 as stated: for a unit of several COIs the "case" expression selects *)
(* the pattern of the last COI, in append order, whose unit list contains  *)
(* the unit.                                                               *)
(***************************************************************************)
C12_LastCOIWins ==
    FillPatternApplied =>
        \A u \in AllUnits :
            Cardinality(Covering(u)) >= 2 =>
                \E k \in Covering(u) :
                    /\ \A l \in Covering(u) : l <= k
                    /\ EvalCase(FillPattern, u) = Str(AssignedTo(k))

(***************************************************************************)
(* C12 amended: for a unit of several COIs the "case" expression selects   *)
(* the pattern of the first COI, in append order, whose unit list contains *)
(* the unit.                                                               *)
(***************************************************************************)
C12_FirstCOIWins ==
    FillPatternApplied =>
        \A u \in AllUnits :
            Cardinality(Covering(u)) >= 2 =>
                \E k \in Covering(u) :
                    /\ \A l \in Covering(u) : k <= l
                    /\ EvalCase(FillPattern, u) = Str(AssignedTo(k))

C12_Witness ==
    /\ FillPatternApplied
    /\ clusters = ScenarioClusters
    /\ patterns = Catalog(3)
    /\ Covering("unit2") = {1, 2}
    /\ EvalCase(FillPattern, "unit2") = Str("p1")

(***************************************************************************)
(* C13: map.addImage(pattern, image) is called only for a pattern whose    *)
(* loadImage callback reported success, with the loaded image; nothing is  *)
(* registered under the name of a pattern whose load reported an error.    *)
(***************************************************************************)
C13_AddImageOnlyOnSuccess ==
    \A call \in addImageCalls :
        \E i \in 1..Len(chosenPatterns) :
            /\ chosenPatterns[i][1] = call.name
            /\ callbacks[i] = "image"
            /\ call.image = chosenPatterns[i][2]

(***************************************************************************)
(* C14: chosenPatterns holds exactly the first min(N, M) catalog entries   *)
(* (name and URL); its key set is the set of pattern names assigned in     *)
(* patternMatch and the set of patterns loadImage was issued for, each     *)
(* once; no loadImage is issued for an entry that was not allocated.       *)
(***************************************************************************)
AssignedNames == { AssignedTo(k) : k \in 1..PairCount } \ {Undefined}

ChosenNames == { chosenPatterns[i][1] : i \in 1..Len(chosenPatterns) }

C14_ConsumedSubCatalog ==
    /\ Allocated =>
          /\ Len(chosenPatterns) = Min(PairCount, CatalogSize)
          /\ \A i \in 1..Len(chosenPatterns) : chosenPatterns[i] = patterns[i]
          /\ ChosenNames = AssignedNames
    /\ pc \in {"await", "compile", "fulfilled"} =>
          /\ Len(loadImageCalls) = Len(chosenPatterns)
          /\ \A i \in 1..Len(chosenPatterns) :
                Cardinality({ j \in 1..Len(loadImageCalls) :
                                 loadImageCalls[j] = chosenPatterns[i][2] }) = 1
    /\ pc \notin {"await", "compile", "fulfilled"} => loadImageCalls = <<>>

C14_Witness ==
    /\ pc = "await"
    /\ CatalogSize = 3
    /\ PairCount = 2
    /\ loadImageCalls = <<"url1", "url2">>

(***************************************************************************)
(* C15: a fetched record without a truthy plan or plan.assignment never    *)
(* makes the pipeline fail; it adds no entry to unitMap or patternMatch    *)
(* and consumes no pattern, and the result's clusters field is the raw     *)
(* fetched list, that record included.                                     *)
(***************************************************************************)
Malformed(cl) == (1..Len(cl)) \ Eligible(cl)

EligibleIds(cl) == { cl[j].plan.id : j \in Eligible(cl) }

C15_MalformedClusterIgnored ==
    (pc # "fetchClusters" /\ fetches[1].response.kind = "json") =>
        /\ result.state = "rejected" => FetchFailed
        /\ pc # "rejected" =>
              /\ { unitMap[i][1] : i \in 1..Len(unitMap) } = EligibleIds(clusters)
              /\ Len(unitMap) = Cardinality(EligibleIds(clusters))
        /\ Allocated =>
              /\ { patternMatch[i][1] : i \in 1..Len(patternMatch) } = EligibleIds(clusters)
              /\ Len(chosenPatterns) <= PairCount
        /\ result.state = "fulfilled" =>
              result.value.clusters = fetches[1].response.body

C15_Witness ==
    /\ result.state = "fulfilled"
    /\ Len(clusters) = 2
    /\ Malformed(clusters) = {1}
    /\ result.value.clusters = clusters
    /\ Len(chosenPatterns) = 1

(***************************************************************************)
(* C16: opacityStyleExpression(units, geoids, opacity) applies exactly one *)
(* paint property, named units.type with "symbol" replaced by "icon" and   *)
(* "-opacity" appended, whose two-branch conditional yields 0 for a unit   *)
(* in geoids and the passed opacity for every other unit.                  *)
(***************************************************************************)
OpacityPropertyOf(type) ==
    CASE type = "fill" -> "fill-opacity"
      [] type = "line" -> "line-opacity"
      [] type = "circle" -> "circle-opacity"
      [] type = "symbol" -> "icon-opacity"

PassedOpacity(opacity) == IF opacity = NoArgument THEN Number(1, 3) ELSE opacity

C16_OpacityExpression ==
    [][\A type \in LayerTypes, geoids \in GeoidLists, opacity \in OpacityArguments :
          OpacityStyleExpression(type, geoids, opacity) =>
             LET applied == paintCalls'[Len(paintCalls')]
             IN  /\ Len(paintCalls') = Len(paintCalls) + 1
                 /\ SubSeq(paintCalls', 1, Len(paintCalls)) = paintCalls
                 /\ opacityCalls' = opacityCalls
                 /\ applied.name = OpacityPropertyOf(type)
                 /\ BranchCount(applied.value) = 1
                 /\ \A u \in AllUnits :
                       EvalCase(applied.value, u) =
                          IF Includes(geoids, u) THEN Number(0, 1)
                          ELSE PassedOpacity(opacity)]_vars

C16_Witness ==
    \E i \in 1..Len(paintCalls) :
        /\ paintCalls[i].name = "icon-opacity"
        /\ EvalCase(paintCalls[i].value, "unit2") = Number(0, 1)
        /\ EvalCase(paintCalls[i].value, "unit1") = Number(1, 2)

(***************************************************************************)
(* C18: when an assignment names a part identifier the parts table lacks,  *)
(* createUnitMap raises no error and keeps the unit: every such unit is    *)
(* appended to the one bucket keyed "undefined", which is one COI of the   *)
(* cluster: one pair of the traversal, allocated a catalog pattern like    *)
(* any other pair, and one branch of the style expression.                 *)
(***************************************************************************)
IdList(coiids) == IF coiids.kind = "array" THEN coiids.items ELSE <<coiids.value>>

\* The (entry, position) places of c's assignment whose part identifier is
\* absent from c's parts table.
Unresolved(c) ==
    LET entries == c.plan.assignment.entries
    IN  UNION { { <<e, i>> : i \in { i \in 1..Len(IdList(entries[e][2])) :
                                      \A j \in 1..Len(c.plan.parts) :
                                          c.plan.parts[j].id # IdList(entries[e][2])[i] } } :
                e \in 1..Len(entries) }

PairIndex(id, name) == { k \in 1..PairCount : Traversal(unitMap)[k] = <<id, name>> }

C19_SameKeys ==
    Allocated =>
        /\ Len(patternMatch) = Len(unitMap)
        /\ \A i \in 1..Len(unitMap) :
              /\ patternMatch[i][1] = unitMap[i][1]
              /\ Len(patternMatch[i][2]) = Len(unitMap[i][2])
              /\ \A n \in 1..Len(unitMap[i][2]) :
                    patternMatch[i][2][n][1] = unitMap[i][2][n][1]

C19_Witness ==
    /\ Allocated
    /\ PairCount = 3
    /\ CatalogSize = 1
    /\ \E i \in 1..Len(unitMap) : Has(unitMap[i][2], "undefined")

(***************************************************************************)
(* C20: the fill-pattern expression, patternMatch and chosenPatterns do    *)
(* not depend on which image loads fail or on the order the loads          *)
(* complete: they are fixed by the clusters and the catalog before the     *)
(* first callback fires, no callback or later handler changes them, and    *)
(* the expression and the result are made of them alone.                   *)
(***************************************************************************)
\* The expression the unit map and the catalog determine.
ExpectedPattern(k) == IF k <= CatalogSize THEN patterns[k][1] ELSE Undefined

ExpectedExpression ==
    [x \in 1..(2 * PairCount + 2) |->
        IF x = 1 THEN Str("case")
        ELSE IF x = 2 * PairCount + 2 THEN Str("transparent")
        ELSE IF x % 2 = 0
             THEN [kind |-> "in", get |-> "GEOID20", literal |-> UnitListOf(x \div 2)]
             ELSE Str(ExpectedPattern(x \div 2))]

\* No step changes the clusters or the unit map once they are there, nor the
\* catalog, patternMatch or chosenPatterns once allocation is done.
AllocationKept ==
    /\ pc # "fetchClusters" =>
          /\ clusters' = clusters
          /\ unitMap' = unitMap
    /\ pc \in {"load", "await", "compile", "fulfilled"} =>
          /\ patterns' = patterns
          /\ patternMatch' = patternMatch
          /\ chosenPatterns' = chosenPatterns

C20_LoadOutcomesDoNotMatter ==
    /\ [](FillPatternApplied =>
             /\ FillPattern = ExpectedExpression
             /\ result.state = "fulfilled"
             /\ result.value.patternMatch = patternMatch
             /\ result.value.chosenPatterns = chosenPatterns
             /\ \A k \in 1..PairCount : AssignedTo(k) = ExpectedPattern(k)
             /\ chosenPatterns = SubSeq(patterns, 1, Min(PairCount, CatalogSize)))
    /\ [][AllocationKept]_vars

C20_Witness ==
    /\ FillPatternApplied
    /\ Len(callbacks) = 3
    /\ callbacks = <<"image", "error", "image">>
    /\ FillPattern = ExpectedExpression

====
